---- MODULE Spec2Model ----
(***************************************************************************)
(* The column-profiling metric engine of the ingestion framework:          *)
(*   - PinotDBProfilerInterface.get_hybrid_metrics, the dispatcher that    *)
(*     resolves a hybrid metric through HYBRID_METRIC_OVERRIDES;           *)
(*   - PinotDBHistogram.fn, the histogram with scaled integer comparisons. *)
(*                                                                         *)
(* Numbers.  A Python float is held as an integer count of 1/Resolution:   *)
(* 1.0 is Resolution, 0.0006 is 6.  Resolution is ten times SCALE_FACTOR,  *)
(* so a value has one decimal digit below the grain 1/SCALE_FACTOR at      *)
(* which the scaled comparison works, and round() has something to round.  *)
(* A row count is a plain integer.                                         *)
(***************************************************************************)
EXTENDS Integers, Sequences, FiniteSets, TLC

\* ---------------------------------------------------------------- bounds
\* Largest number of rows of the sampled column.
MaxRows == 3
\* Largest integer part of a cell value (and largest string length).
MaxUnits == 2
\* Number of profiler-interface instances that are constructed.
MaxAdapters == 2
\* Largest step of the five-row columns step, 2 step, ..., 5 step.
MaxStep == 100
\* Largest max_cell_length of a sampler; strings are one character longer at
\* most.
MaxCellLength == 3
\* Largest number of rows of a sampled table or dataframe batch.
MaxSampleRows == 2
\* Number of Glue connection names, and largest number of
\* _resolve_glue_connection calls for one name.
MaxConnections == 2
MaxResolves == 3
\* Largest number of search requests of one get_dashboards_list call.
MaxRequests == 3

\* ------------------------------------------------------------- constants
\* PinotDBHistogram.SCALE_FACTOR
SCALE_FACTOR == 1000
\* Rows of the financial_transactions table.
TableRows == 5

Resolution == SCALE_FACTOR * 10

\* ------------------------------------------------------------ arithmetic
Abs(n) == IF n < 0 THEN -n ELSE n

RECURSIVE GCD(_, _)
GCD(a, b) == IF b = 0 THEN Abs(a) ELSE GCD(b, a % b)

\* The smallest integer >= n / d, for d > 0  (math.ceil of a quotient).
CeilDiv(n, d) == -((-n) \div d)

\* Python's round(): the integer nearest to n / d, ties to the even one.
RoundHalfEven(n, d) ==
    LET q == n \div d
        r == n % d
    IN  IF 2 * r < d THEN q
        ELSE IF 2 * r > d THEN q + 1
        ELSE IF q % 2 = 0 THEN q ELSE q + 1

\* floor(a * 10^digits / c) by long division, one decimal digit at a time.
RECURSIVE LongDiv(_, _, _, _)
LongDiv(q, r, c, digits) ==
    IF digits = 0 THEN q
    ELSE LongDiv(q * 10 + (r * 10) \div c, (r * 10) % c, c, digits - 1)

\* 1000000 * n^(1/3) to the nearest integer, for n = 1 .. 12: the cube root
\* that row_count ** (-1 / 3) takes, to six decimals.
CubeRootMicro ==
    << 1000000, 1259921, 1442250, 1587401, 1709976, 1817121,
       1912931, 2000000, 2080084, 2154435, 2223980, 2289428 >>

\* Sum of f[x] over the finite set S.
RECURSIVE SumOver(_, _)
SumOver(f, S) ==
    IF S = {} THEN 0
    ELSE LET x == CHOOSE y \in S : TRUE
         IN  f[x] + SumOver(f, S \ {x})

RECURSIVE SumSeq(_)
SumSeq(s) == IF s = <<>> THEN 0 ELSE Head(s) + SumSeq(Tail(s))

\* ---------------------------------------------------------------- values
\* A value of the results map or a cell: a number, the non-numeric sentinel
\* (NaN / infinity), SQL NULL / Python None, or a string.
Num(n) == [kind |-> "num", val |-> n, str |-> <<>>]
NaN == [kind |-> "nan", val |-> 0, str |-> <<>>]
None == [kind |-> "none", val |-> 0, str |-> <<>>]
Str(s) == [kind |-> "str", val |-> 0, str |-> s]

\* ------------------------------------------------------ registry predicates
\* A column type is known to the histogram only through the two predicates of
\* metadata.profiler.orm.registry, so a type is the pair of their answers.
ColTypes == [quantifiable : BOOLEAN, concatenable : BOOLEAN]

is_quantifiable(type) == type.quantifiable

is_concatenable(type) == type.concatenable

\* True for a float that is NaN or infinite; None is not "non numeric".
is_value_non_numeric(value) == value.kind = "nan"

\* dict.get(key): the entry, or None when the key is absent.
DictGet(d, key) == IF key \in DOMAIN d THEN d[key] ELSE None

\* ------------------------------------------------------------ bin planning
\* Histogram._get_res: the four values the Freedman-Diaconis rule needs, or
\* nothing when one of them is None.
_get_res(res) ==
    LET res_iqr == DictGet(res, "interQuartileRange")
        res_row_count == DictGet(res, "count")
        res_min == DictGet(res, "min")
        res_max == DictGet(res, "max")
    IN  IF \E v \in {res_iqr, res_row_count, res_min, res_max} : v.kind = "none"
        THEN [ok |-> FALSE, iqr |-> 0, row_count |-> 0, min |-> 0, max |-> 0]
        ELSE [ok |-> TRUE, iqr |-> res_iqr.val, row_count |-> res_row_count.val,
              min |-> res_min.val, max |-> res_max.val]

\* Freedman-Diaconis bin width 2 * iqr * row_count ** (-1/3); 1 when iqr is 0.
_get_bin_width(iqr, row_count) ==
    IF iqr = 0 THEN Resolution
    ELSE LET c == CubeRootMicro[row_count]
         IN  LongDiv((2 * iqr) \div c, (2 * iqr) % c, c, 6)

\* Histogram._get_bins: (num_bins, bin_width).
_get_bins(res_iqr, res_row_count, res_min, res_max) ==
    LET bin_width == _get_bin_width(res_iqr, res_row_count)
    IN  [num_bins |-> CeilDiv(res_max - res_min, bin_width),
         bin_width |-> bin_width]

\* f"{x:.3f}": x rounded to thousandths, held as the count of thousandths.
Fmt3(x) == RoundHalfEven(x, Resolution \div 1000)

\* Histogram._format_bin_labels(lower_bin, upper_bin=None):
\* "{lower:.3f} to {upper:.3f}", or "{lower:.3f} and up" without an upper bin.
_format_bin_labels(lower_bin, upper_bin) ==
    IF upper_bin.kind = "none"
    THEN [start |-> Fmt3(lower_bin), end |-> Fmt3(lower_bin), up |-> TRUE]
    ELSE [start |-> Fmt3(lower_bin), end |-> Fmt3(upper_bin.val), up |-> FALSE]

\* --------------------------------------------------------- query synthesis
\* A literal of the emitted SQL: num / den.  An integer literal has den = 1.
IntLit(n) == [num |-> n, den |-> 1]
FloatLit(x) == [num |-> x, den |-> Resolution]

\* column(name, type), or LenFn(column(name, type)), times a factor.
ColExpr(fn, times) == [fn |-> fn, times |-> times]

\* COUNT over the CASE on an engine whose COUNT also counts the rows outside
\* the branch: every row adds one.
CountCase(col, lo, hi, open, label) ==
    [agg |-> "count", col |-> col, lo |-> lo, hi |-> hi, open |-> open,
     then_ |-> 1, else_ |-> 1, label |-> label]

\* func.sum(case([(condition, literal(1))], else_=literal(0))).label(label),
\* condition being  col >= lo  AND  col < hi,  or  col >= lo  when open.
SumCase(col, lo, hi, open, label) ==
    [agg |-> "sum", col |-> col, lo |-> lo, hi |-> hi, open |-> open,
     then_ |-> 1, else_ |-> 0, label |-> label]

\* round(x): the boundary rounded without being scaled.
ScaledRound_unscaled(x) == RoundHalfEven(x, Resolution)

\* round(x * SCALE_FACTOR)
ScaledRound(x) ==
    LET g == GCD(SCALE_FACTOR, Resolution)
    IN  RoundHalfEven(x * (SCALE_FACTOR \div g), Resolution \div g)

\* range(num_bins - 1): the loop stops one bin early.
RangeStopsEarly(bin_num, num_bins) == bin_num >= num_bins - 1

\* for bin_num in range(num_bins): whether the range is exhausted.
RangeDone(bin_num, num_bins) == bin_num >= num_bins

\* if bin_num < num_bins: every bin, the last too, gets an upper bound.
EveryBinBounded(bin_num, num_bins) == bin_num < num_bins

\* if bin_num < num_bins - 1: a bin with an upper bound, the last has none.
HasUpperBound(bin_num, num_bins) == bin_num < num_bins - 1

\* The loop with each bin's scaled end taken as its scaled start plus the
\* rounded scaled width, instead of the rounded scaled end.
RECURSIVE PinotBinLoop_end_from_width(_, _, _, _, _, _, _)
PinotBinLoop_end_from_width(bin_num, num_bins, bin_width, current_start, current_end, scaled_col, case_stmts) ==
    IF RangeDone(bin_num, num_bins) THEN case_stmts
    ELSE LET scaled_start == ScaledRound(current_start)
         IN  IF HasUpperBound(bin_num, num_bins)
             THEN LET scaled_end == scaled_start + ScaledRound(bin_width)
                      stmt == SumCase(scaled_col, IntLit(scaled_start),
                                      IntLit(scaled_end), FALSE,
                                      _format_bin_labels(current_start,
                                                         Num(current_end)))
                  IN  PinotBinLoop_end_from_width(bin_num + 1, num_bins, bin_width,
                                   current_end, current_end + bin_width,
                                   scaled_col, Append(case_stmts, stmt))
             ELSE LET stmt == SumCase(scaled_col, IntLit(scaled_start),
                                      IntLit(scaled_start), TRUE,
                                      _format_bin_labels(current_start, None))
                  IN  PinotBinLoop_end_from_width(bin_num + 1, num_bins, bin_width,
                                   current_start, current_end,
                                   scaled_col, Append(case_stmts, stmt))

\* The loop  for bin_num in range(num_bins)  of PinotDBHistogram.fn.
RECURSIVE PinotBinLoop(_, _, _, _, _, _, _)
PinotBinLoop(bin_num, num_bins, bin_width, current_start, current_end, scaled_col, case_stmts) ==
    IF RangeDone(bin_num, num_bins) THEN case_stmts
    ELSE LET scaled_start == ScaledRound(current_start)
         IN  IF HasUpperBound(bin_num, num_bins)
             THEN LET scaled_end == ScaledRound(current_end)
                      stmt == SumCase(scaled_col, IntLit(scaled_start),
                                      IntLit(scaled_end), FALSE,
                                      _format_bin_labels(current_start,
                                                         Num(current_end)))
                  IN  PinotBinLoop(bin_num + 1, num_bins, bin_width,
                                   current_end, current_end + bin_width,
                                   scaled_col, Append(case_stmts, stmt))
             ELSE LET stmt == SumCase(scaled_col, IntLit(scaled_start),
                                      IntLit(scaled_start), TRUE,
                                      _format_bin_labels(current_start, None))
                  IN  PinotBinLoop(bin_num + 1, num_bins, bin_width,
                                   current_start, current_end,
                                   scaled_col, Append(case_stmts, stmt))

\* ---------------------------------------------------------------- session
\* The value a column expression takes on one cell; NULL stays NULL.
ColValue(col, cell) ==
    IF cell.kind = "none" THEN None
    ELSE IF col.fn = "len"
         THEN (IF cell.kind = "str" THEN Num(Len(cell.str) * Resolution) ELSE None)
         ELSE (IF cell.kind = "num" THEN Num(cell.val) ELSE None)

\* v * times >= lit, for v a number in 1/Resolution and lit a literal.
ScaledGE(v, times, lit) ==
    LET g == GCD(times * lit.den, Resolution)
    IN  v * ((times * lit.den) \div g) >= lit.num * (Resolution \div g)

\* The upper comparison as <= instead of <: a row on a bin's end is in the bin.
CaseWhen_closed_end(stmt, cell) ==
    LET v == ColValue(stmt.col, cell)
    IN  /\ v.kind = "num"
        /\ ScaledGE(v.val, stmt.col.times, stmt.lo)
        /\ \/ stmt.open
           \/ ~ScaledGE(v.val, stmt.col.times, stmt.hi)
           \/ v.val * stmt.col.times = stmt.hi.num * Resolution

\* Whether the CASE condition of an aggregate expression is true on a cell;
\* a comparison with NULL is not true.
CaseWhen(stmt, cell) ==
    LET v == ColValue(stmt.col, cell)
    IN  /\ v.kind = "num"
        /\ ScaledGE(v.val, stmt.col.times, stmt.lo)
        /\ stmt.open \/ ~ScaledGE(v.val, stmt.col.times, stmt.hi)

\* The value of one aggregate expression over the sample, a multiset of
\* cells (cell -> number of rows holding it).
\*   SUM(CASE WHEN c THEN 1 ELSE 0 END)   adds then_ or else_ for every row;
\*   COUNT(CASE WHEN c THEN x END)        counts the rows where c is true.
Aggregate(stmt, sample) ==
    LET one == [cell \in DOMAIN sample |->
                  sample[cell] * (IF CaseWhen(stmt, cell) THEN stmt.then_
                                  ELSE stmt.else_)]
    IN  SumOver(one, DOMAIN sample)

\* session.query(*case_stmts).select_from(sample).first(): the session raises,
\* returns no row, or returns the one row of aggregates under their labels.
QueryFirst(session, case_stmts, sample) ==
    IF session.outcome = "error"
    THEN [kind |-> "raise", keys |-> <<>>, values |-> <<>>]
    ELSE IF session.outcome = "norow"
    THEN [kind |-> "none", keys |-> <<>>, values |-> <<>>]
    ELSE [kind |-> "row",
          keys |-> [i \in DOMAIN case_stmts |-> case_stmts[i].label],
          values |-> [i \in DOMAIN case_stmts |-> Aggregate(case_stmts[i], sample)]]

\* session.query(*case_stmts).select_from(sample): one SELECT of the aggregate
\* expressions straight from the sample.
Query(case_stmts) == [columns |-> case_stmts, select_from |-> "sample"]

\* ------------------------------------------------------------ fn outcomes
NoPlan == [set |-> FALSE, num_bins |-> 0, bin_width |-> 0,
           starting_bin_bound |-> 0, ending_bin_bound |-> 0]

\* The calls of self.get_sqlalchemy_histogram(...) a fn makes.  fn builds the
\* aggregate expressions and runs session.query(...) itself and never calls
\* that method.
get_sqlalchemy_histogram_calls == <<>>

\* What one call of a metric's fn did: how it ended ("hist": a
\* HistogramResult, "none": None, "raise": an exception), the queries it
\* handed to the session, the bin plan it worked with, and its calls of
\* get_sqlalchemy_histogram.
FnEnd(kind, error, boundaries, frequencies, queries, plan) ==
    [kind |-> kind, error |-> error, boundaries |-> boundaries,
     frequencies |-> frequencies, queries |-> queries, plan |-> plan,
     helper_calls |-> get_sqlalchemy_histogram_calls]

ReturnNone(queries, plan) == FnEnd("none", "", <<>>, <<>>, queries, plan)

Raise(error, queries, plan) == FnEnd("raise", error, <<>>, <<>>, queries, plan)

\* No row parsed as a histogram without bins instead of None.
ParseRows_empty_histogram(rows, queries, plan) ==
    IF rows.kind = "raise" THEN Raise("QueryError", queries, plan)
    ELSE FnEnd("hist", "", rows.keys, rows.values, queries, plan)

\* The row's values taken in the reverse of the order of its keys.
ParseRows_reversed(rows, queries, plan) ==
    IF rows.kind = "raise" THEN Raise("QueryError", queries, plan)
    ELSE IF rows.kind = "row" /\ Len(rows.values) > 0
    THEN FnEnd("hist", "", rows.keys,
               [i \in DOMAIN rows.values |-> rows.values[Len(rows.values) + 1 - i]],
               queries, plan)
    ELSE ReturnNone(queries, plan)

\* if rows: return HistogramResult(boundaries=list(rows.keys()),
\*                                 frequencies=list(rows))
\* return None
ParseRows(rows, queries, plan) ==
    IF rows.kind = "raise" THEN Raise("QueryError", queries, plan)
    ELSE IF rows.kind = "row" /\ Len(rows.values) > 0
    THEN FnEnd("hist", "", rows.keys, rows.values, queries, plan)
    ELSE ReturnNone(queries, plan)

\* One session query per bin instead of one query of all the bins.
PinotQueryPart_query_per_bin(col_type, bins, res_min, sample, session) ==
    LET plan == [set |-> TRUE, num_bins |-> bins.num_bins,
                 bin_width |-> bins.bin_width,
                 starting_bin_bound |-> res_min,
                 ending_bin_bound |-> res_min + bins.bin_width]
        scaled_col == ColExpr(IF is_concatenable(col_type) THEN "len" ELSE "raw",
                              SCALE_FACTOR)
        case_stmts == PinotBinLoop(0, bins.num_bins, bins.bin_width, res_min,
                                   res_min + bins.bin_width, scaled_col, <<>>)
        rows == QueryFirst(session, case_stmts, sample)
    IN  ParseRows(rows, [i \in DOMAIN case_stmts |-> Query(<<case_stmts[i]>>)], plan)

\* The first bin starts at 0 instead of at the column's minimum.
PinotQueryPart_start_at_zero(col_type, bins, res_min, sample, session) ==
    LET plan == [set |-> TRUE, num_bins |-> bins.num_bins,
                 bin_width |-> bins.bin_width,
                 starting_bin_bound |-> 0,
                 ending_bin_bound |-> bins.bin_width]
        scaled_col == ColExpr(IF is_concatenable(col_type) THEN "len" ELSE "raw",
                              SCALE_FACTOR)
        case_stmts == PinotBinLoop(0, bins.num_bins, bins.bin_width, 0,
                                   bins.bin_width, scaled_col, <<>>)
        rows == QueryFirst(session, case_stmts, sample)
    IN  ParseRows(rows, <<Query(case_stmts)>>, plan)

\* PinotDBHistogram.fn from the bin plan on: the column expression, the
\* aggregate expressions, the one query and the parsed row.
PinotQueryPart(col_type, bins, res_min, sample, session) ==
    LET starting_bin_bound == res_min
        ending_bin_bound == res_min + bins.bin_width
        plan == [set |-> TRUE, num_bins |-> bins.num_bins,
                 bin_width |-> bins.bin_width,
                 starting_bin_bound |-> starting_bin_bound,
                 ending_bin_bound |-> ending_bin_bound]
        col == IF is_concatenable(col_type) THEN "len" ELSE "raw"
        scaled_col == ColExpr(col, SCALE_FACTOR)
        case_stmts == PinotBinLoop(0, bins.num_bins, bins.bin_width,
                                   starting_bin_bound, ending_bin_bound,
                                   scaled_col, <<>>)
        rows == QueryFirst(session, case_stmts, sample)
    IN  ParseRows(rows, <<Query(case_stmts)>>, plan)

\* fn without the column type test: only min and max are looked at.
PinotDBHistogram_fn_any_type(col_type, sample, res, session) ==
    IF ~session.present THEN Raise("AttributeError", <<>>, NoPlan)
    ELSE IF \/ is_value_non_numeric(DictGet(res, "min"))
            \/ is_value_non_numeric(DictGet(res, "max"))
    THEN ReturnNone(<<>>, NoPlan)
    ELSE LET results == _get_res(res)
         IN  IF ~results.ok THEN ReturnNone(<<>>, NoPlan)
             ELSE LET bins == _get_bins(results.iqr, results.row_count,
                                        results.min, results.max)
                  IN  IF bins.num_bins = 0 THEN ReturnNone(<<>>, NoPlan)
                      ELSE PinotQueryPart(col_type, bins, results.min, sample,
                                          session)

\* fn without the  if not results  test: the bin arithmetic meets a None.
PinotDBHistogram_fn_unchecked_res(col_type, sample, res, session) ==
    IF ~session.present THEN Raise("AttributeError", <<>>, NoPlan)
    ELSE IF \/ ~is_quantifiable(col_type)
            \/ is_value_non_numeric(DictGet(res, "min"))
            \/ is_value_non_numeric(DictGet(res, "max"))
    THEN ReturnNone(<<>>, NoPlan)
    ELSE LET results == _get_res(res)
         IN  IF ~results.ok THEN Raise("TypeError", <<>>, NoPlan)
             ELSE LET bins == _get_bins(results.iqr, results.row_count,
                                        results.min, results.max)
                  IN  IF bins.num_bins = 0 THEN ReturnNone(<<>>, NoPlan)
                      ELSE PinotQueryPart(col_type, bins, results.min, sample,
                                          session)

\* fn without the  if num_bins == 0  test: a query without a column is built
\* and handed to the session.
PinotDBHistogram_fn_unchecked_bins(col_type, sample, res, session) ==
    IF ~session.present THEN Raise("AttributeError", <<>>, NoPlan)
    ELSE IF \/ ~is_quantifiable(col_type)
            \/ is_value_non_numeric(DictGet(res, "min"))
            \/ is_value_non_numeric(DictGet(res, "max"))
    THEN ReturnNone(<<>>, NoPlan)
    ELSE LET results == _get_res(res)
         IN  IF ~results.ok THEN ReturnNone(<<>>, NoPlan)
             ELSE PinotQueryPart(col_type,
                                 _get_bins(results.iqr, results.row_count,
                                           results.min, results.max),
                                 results.min, sample, session)

\* fn with the session test after the precondition tests, where the session
\* is first needed.
PinotDBHistogram_fn_late_session(col_type, sample, res, session) ==
    IF \/ ~is_quantifiable(col_type)
       \/ is_value_non_numeric(DictGet(res, "min"))
       \/ is_value_non_numeric(DictGet(res, "max"))
    THEN ReturnNone(<<>>, NoPlan)
    ELSE LET results == _get_res(res)
         IN  IF ~results.ok THEN ReturnNone(<<>>, NoPlan)
             ELSE LET bins == _get_bins(results.iqr, results.row_count,
                                        results.min, results.max)
                  IN  IF bins.num_bins = 0 THEN ReturnNone(<<>>, NoPlan)
                      ELSE IF ~session.present
                      THEN Raise("AttributeError", <<>>, NoPlan)
                      ELSE PinotQueryPart(col_type, bins, results.min, sample,
                                          session)

\* PinotDBHistogram.fn(sample, res, session)
PinotDBHistogram_fn(col_type, sample, res, session) ==
    IF ~session.present THEN Raise("AttributeError", <<>>, NoPlan)
    ELSE IF \/ ~is_quantifiable(col_type)
            \/ is_value_non_numeric(DictGet(res, "min"))
            \/ is_value_non_numeric(DictGet(res, "max"))
    THEN ReturnNone(<<>>, NoPlan)
    ELSE LET results == _get_res(res)
         IN  IF ~results.ok THEN ReturnNone(<<>>, NoPlan)
             ELSE LET bins == _get_bins(results.iqr, results.row_count,
                                        results.min, results.max)
                  IN  IF bins.num_bins = 0 THEN ReturnNone(<<>>, NoPlan)
                      ELSE PinotQueryPart(col_type, bins, results.min,
                                          sample, session)

\* ------------------------------------------------- the generic histogram
\* The loop of the generic Histogram: the same bins, compared unscaled.
RECURSIVE GenericBinLoop(_, _, _, _, _, _, _)
GenericBinLoop(bin_num, num_bins, bin_width, current_start, current_end, col, case_stmts) ==
    IF bin_num >= num_bins THEN case_stmts
    ELSE IF bin_num < num_bins - 1
    THEN GenericBinLoop(bin_num + 1, num_bins, bin_width,
                        current_end, current_end + bin_width, col,
                        Append(case_stmts,
                               [SumCase(col, FloatLit(current_start),
                                        FloatLit(current_end), FALSE,
                                        _format_bin_labels(current_start,
                                                           Num(current_end)))
                                EXCEPT !.agg = "count"]))
    ELSE GenericBinLoop(bin_num + 1, num_bins, bin_width,
                        current_start, current_end, col,
                        Append(case_stmts,
                               [SumCase(col, FloatLit(current_start),
                                        FloatLit(current_start), TRUE,
                                        _format_bin_labels(current_start, None))
                                EXCEPT !.agg = "count"]))

\* Histogram.fn(sample, res, session), the generic algorithm.
Histogram_fn(col_type, sample, res, session) ==
    IF \/ ~(is_quantifiable(col_type) \/ is_concatenable(col_type))
       \/ is_value_non_numeric(DictGet(res, "min"))
       \/ is_value_non_numeric(DictGet(res, "max"))
    THEN ReturnNone(<<>>, NoPlan)
    ELSE LET results == _get_res(res)
         IN  IF ~results.ok THEN ReturnNone(<<>>, NoPlan)
             ELSE LET bins == _get_bins(results.iqr, results.row_count,
                                        results.min, results.max)
                      plan == [set |-> TRUE, num_bins |-> bins.num_bins,
                               bin_width |-> bins.bin_width,
                               starting_bin_bound |-> results.min,
                               ending_bin_bound |-> results.min + bins.bin_width]
                      col == ColExpr(IF is_concatenable(col_type)
                                     THEN "len" ELSE "raw", 1)
                      case_stmts == GenericBinLoop(0, bins.num_bins, bins.bin_width,
                                                   plan.starting_bin_bound,
                                                   plan.ending_bin_bound, col, <<>>)
                      rows == QueryFirst(session, case_stmts, sample)
                  IN  IF bins.num_bins = 0 THEN ReturnNone(<<>>, NoPlan)
                      ELSE ParseRows(rows, <<Query(case_stmts)>>, plan)

\* Any other hybrid metric: one query of its own, whose row is its value.
OtherHybrid_fn(col_type, sample, res, session) ==
    IF session.outcome = "error" THEN Raise("QueryError", <<Query(<<>>)>>, NoPlan)
    ELSE IF session.outcome = "norow" THEN ReturnNone(<<Query(<<>>)>>, NoPlan)
    ELSE FnEnd("value", "", <<>>, <<>>, <<Query(<<>>)>>, NoPlan)

\* ------------------------------------------------------------- the metrics
Metrics == {"Histogram", "PinotDBHistogram", "OtherHybridMetric"}

\* Metric.name(): PinotDBHistogram inherits Histogram's name.
MetricName(metric) ==
    IF metric \in {"Histogram", "PinotDBHistogram"} THEN "histogram" ELSE "other"

\* effective(column).fn(sample, column_results, session)
RunFn(metric, col_type, sample, res, session) ==
    IF metric = "PinotDBHistogram"
    THEN PinotDBHistogram_fn(col_type, sample, res, session)
    ELSE IF metric = "Histogram"
    THEN Histogram_fn(col_type, sample, res, session)
    ELSE OtherHybrid_fn(col_type, sample, res, session)

\* -------------------------------------------------------- the registries
EmptyRegistry == [name \in {} |-> ""]

Classes == {"SQAProfilerInterface", "PinotDBProfilerInterface"}

\* class SQAProfilerInterface: HYBRID_METRIC_OVERRIDES = {}
SQADeclaration == [cls \in {"SQAProfilerInterface"} |-> EmptyRegistry]

\* The subclass adds its entry to the dict it inherits instead of binding one
\* of its own.
PinotDeclaration_in_place(class_attrs) ==
    [class_attrs EXCEPT !["SQAProfilerInterface"] =
        ("histogram" :> "PinotDBHistogram") @@ @]

\* class PinotDBProfilerInterface(SQAProfilerInterface):
\*     HYBRID_METRIC_OVERRIDES = {MetricType.histogram.value: PinotDBHistogram}
\* The class body binds a dict of the subclass's own.
PinotDeclaration(class_attrs) ==
    class_attrs @@ ("PinotDBProfilerInterface" :> ("histogram" :> "PinotDBHistogram"))

\* An interface instance: its class, and the HYBRID_METRIC_OVERRIDES attribute
\* set on the instance itself, if any.  built is the registry the instance
\* saw when it was constructed (history, read by no operation).
Absent == [cls |-> "", has_own |-> FALSE, own |-> EmptyRegistry, built |-> EmptyRegistry]

\* self.HYBRID_METRIC_OVERRIDES: the instance's attribute, else the class's,
\* else the base class's.
HYBRID_METRIC_OVERRIDES(class_attrs, self) ==
    IF self.has_own THEN self.own
    ELSE IF self.cls \in DOMAIN class_attrs THEN class_attrs[self.cls]
    ELSE class_attrs["SQAProfilerInterface"]

\* overrides.get(metric.name(), metric)
Resolve(overrides, metric) ==
    IF MetricName(metric) \in DOMAIN overrides
    THEN overrides[MetricName(metric)] ELSE metric

\* What a get_hybrid_metrics call leaves behind: the class attributes, the
\* column results map, how many times each metric's fn ran, and fn's outcome.
Dispatched(class_attrs, column_results, fn_calls, end) ==
    [class_attrs |-> class_attrs, column_results |-> column_results,
     fn_calls |-> fn_calls, end |-> end]

NoCalls == [m \in Metrics |-> 0]

\* SQAProfilerInterface.get_hybrid_metrics: resolve, instantiate, call fn.
SQA_get_hybrid_metrics(class_attrs, self, col_type, metric, column_results, sample, session) ==
    LET effective == Resolve(HYBRID_METRIC_OVERRIDES(class_attrs, self), metric)
    IN  Dispatched(class_attrs, column_results,
                   [NoCalls EXCEPT ![effective] = 1],
                   RunFn(effective, col_type, sample, column_results, session))

\* The requested metric's fn is called, the registry is not consulted.
Pinot_calls_requested_fn(class_attrs, self, col_type, metric, column_results, sample, session) ==
    Dispatched(class_attrs, column_results, [NoCalls EXCEPT ![metric] = 1],
               RunFn(metric, col_type, sample, column_results, session))

\* The registry is looked up under the fixed key "histogram", whatever the
\* requested metric's name.
Pinot_fixed_key(class_attrs, self, col_type, metric, column_results, sample, session) ==
    LET overrides == HYBRID_METRIC_OVERRIDES(class_attrs, self)
        effective_metric == IF "histogram" \in DOMAIN overrides
                            THEN overrides["histogram"] ELSE metric
    IN  SQA_get_hybrid_metrics(class_attrs, self, col_type, effective_metric,
                               column_results, sample, session)

\* The overrides are installed in the base class's registry before the call
\* is handed to the base class.
Pinot_installs_in_base(class_attrs, self, col_type, metric, column_results, sample, session) ==
    LET installed == [class_attrs EXCEPT !["SQAProfilerInterface"] =
                        HYBRID_METRIC_OVERRIDES(class_attrs, self) @@ @]
    IN  SQA_get_hybrid_metrics(installed, self, col_type, metric,
                               column_results, sample, session)

\* An exception of fn is caught and None returned in its place.
Pinot_suppresses_error(class_attrs, self, col_type, metric, column_results, sample, session) ==
    LET effective_metric == Resolve(HYBRID_METRIC_OVERRIDES(class_attrs, self), metric)
        d == SQA_get_hybrid_metrics(class_attrs, self, col_type, effective_metric,
                                    column_results, sample, session)
    IN  IF d.end.kind = "raise"
        THEN [d EXCEPT !.end = ReturnNone(d.end.queries, d.end.plan)]
        ELSE d

\* The outcome of fn is written into the column results under the metric's
\* name before the call returns.
Pinot_stores_result(class_attrs, self, col_type, metric, column_results, sample, session) ==
    LET effective_metric == Resolve(HYBRID_METRIC_OVERRIDES(class_attrs, self), metric)
        d == SQA_get_hybrid_metrics(class_attrs, self, col_type, effective_metric,
                                    column_results, sample, session)
    IN  [d EXCEPT !.column_results =
            (MetricName(metric) :> Num(Len(d.end.frequencies))) @@ @]

\* PinotDBProfilerInterface.get_hybrid_metrics
Pinot_get_hybrid_metrics(class_attrs, self, col_type, metric, column_results, sample, session) ==
    LET effective_metric == Resolve(HYBRID_METRIC_OVERRIDES(class_attrs, self), metric)
    IN  SQA_get_hybrid_metrics(class_attrs, self, col_type, effective_metric,
                               column_results, sample, session)

\* interface.get_hybrid_metrics(...): the method of the instance's class.
get_hybrid_metrics(class_attrs, self, col_type, metric, column_results, sample, session) ==
    IF self.cls = "PinotDBProfilerInterface"
    THEN Pinot_get_hybrid_metrics(class_attrs, self, col_type, metric,
                                  column_results, sample, session)
    ELSE SQA_get_hybrid_metrics(class_attrs, self, col_type, metric,
                                column_results, sample, session)

\* A new instance of class cls.
NewInterface(class_attrs, cls) ==
    LET self == [cls |-> cls, has_own |-> FALSE, own |-> EmptyRegistry,
                 built |-> EmptyRegistry]
    IN  [self EXCEPT !.built = HYBRID_METRIC_OVERRIDES(class_attrs, self)]

\* interface.HYBRID_METRIC_OVERRIDES = overrides, on a new instance.
MakeInterface(class_attrs, overrides) ==
    [cls |-> "SQAProfilerInterface", has_own |-> TRUE, own |-> overrides,
     built |-> overrides]

\* ------------------------------------------------- columns and their results
\* The cells a numeric column is drawn from: 0, 0.0006, 1, 1.0006, ... and NULL.
NumCellCount == 2 * (MaxUnits + 1)
NumCellAt(i) ==
    IF i = NumCellCount THEN None
    ELSE Num((i \div 2) * Resolution + (i % 2) * 6)

\* The cells a text column is drawn from: "", "x", "xx", ... and NULL.
StrCellAt(i) ==
    IF i = MaxUnits + 1 THEN None ELSE Str([j \in 1 .. i |-> "x"])

\* The non-decreasing sequences of at most MaxRows indices 0 .. top: one for
\* every multiset of rows.
SortedRows(top) ==
    UNION { { s \in [1 .. n -> 0 .. top] :
                \A i \in 1 .. n - 1 : s[i] <= s[i + 1] } : n \in 0 .. MaxRows }

\* The multisets (cell -> number of rows) of the cells CellAt(0 .. top).
NumColumns ==
    { [c \in { NumCellAt(s[i]) : i \in DOMAIN s } |->
         Cardinality({ i \in DOMAIN s : NumCellAt(s[i]) = c })] :
      s \in SortedRows(NumCellCount) }

StrColumns ==
    { [c \in { StrCellAt(s[i]) : i \in DOMAIN s } |->
         Cardinality({ i \in DOMAIN s : StrCellAt(s[i]) = c })] :
      s \in SortedRows(MaxUnits + 1) }

\* The number a cell is profiled by: its value, or its length when a string.
CellNumber(cell) ==
    IF cell.kind = "str" THEN Len(cell.str) * Resolution ELSE cell.val

NonNull(column) == { c \in DOMAIN column : c.kind # "none" }

RowCount(column) == SumOver(column, DOMAIN column)

NonNullCount(column) == SumOver(column, NonNull(column))

TrueMin(column) ==
    CHOOSE m \in { CellNumber(c) : c \in NonNull(column) } :
        \A c \in NonNull(column) : m <= CellNumber(c)

TrueMax(column) ==
    CHOOSE m \in { CellNumber(c) : c \in NonNull(column) } :
        \A c \in NonNull(column) : m >= CellNumber(c)

\* The interquartile ranges a column may have: between 0 and max - min.
IqrChoices(column) ==
    IF NonNull(column) = {} THEN {0}
    ELSE { q \in { k * (Resolution \div 2) : k \in 0 .. 2 * MaxUnits } :
             q <= TrueMax(column) - TrueMin(column) }

\* ColumnResults as the orchestrator's static metrics leave it: the count of
\* non-null rows, and min, max and interQuartileRange when there is a row.
StaticResults(column, iqr) ==
    IF NonNull(column) = {} THEN ("count" :> Num(0))
    ELSE ("count" :> Num(NonNullCount(column)))
         @@ ("min" :> Num(TrueMin(column)))
         @@ ("max" :> Num(TrueMax(column)))
         @@ ("interQuartileRange" :> Num(iqr))

\* The results maps fn is called with: complete, one entry absent, or min /
\* max a non-numeric sentinel.
Variants == {"complete", "noCount", "noIqr", "noMin", "noMax", "nanMin", "nanMax"}

Without(d, key) == [k \in DOMAIN d \ {key} |-> d[k]]

WithNaN(d, key) == [k \in DOMAIN d \cup {key} |-> IF k = key THEN NaN ELSE d[k]]

Variant(d, v) ==
    CASE v = "complete" -> d
      [] v = "noCount" -> Without(d, "count")
      [] v = "noIqr" -> Without(d, "interQuartileRange")
      [] v = "noMin" -> Without(d, "min")
      [] v = "noMax" -> Without(d, "max")
      [] v = "nanMin" -> WithNaN(d, "min")
      [] v = "nanMax" -> WithNaN(d, "max")

ColumnsOf(type) == IF type.concatenable THEN StrColumns ELSE NumColumns

\* A profiling call's inputs: the column's type, the sample and the results.
Profile(type, column, iqr, v) ==
    [col_type |-> type, sample |-> column,
     column_results |-> Variant(StaticResults(column, iqr), v)]

\* The profiles the dispatcher is exercised with: the column {0.0006, 1, NULL}
\* with an interquartile range of 1, numeric or of an unsupported type, its
\* results complete, without interQuartileRange, or with a non-numeric max.
DispatchColumn == (Num(6) :> 1) @@ (Num(Resolution) :> 1) @@ (None :> 1)

DispatchProfiles ==
    { Profile(type, DispatchColumn, Resolution, v) :
        type \in { t \in ColTypes : ~t.concatenable },
        v \in {"complete", "noIqr", "nanMax"} }

Sessions == [present : {TRUE}, outcome : {"row", "norow", "error"}]

NoSession == [present |-> FALSE, outcome |-> "norow"]

\* ------------------------------------------------------------ the sampler
\* Cell values of a sample row besides numbers, None and strings.
Bool(b) == [kind |-> "bool", val |-> IF b THEN 1 ELSE 0, str |-> <<>>]
Bytes(b) == [kind |-> "bytes", val |-> 0, str |-> b]

\* value[:n]
Prefix(s, n) == SubSeq(s, 1, IF n < Len(s) THEN n ELSE Len(s))

\* How a call ended: it returned value, or it raised.
Returned(value) == [raised |-> FALSE, value |-> value]
Raised == [raised |-> TRUE, value |-> None]

\* len() of every cell, a string or not: a number has no len(), and a byte
\* sequence is cut like a string.
_truncate_cell_sized(max_cell_length, value) ==
    IF value.kind \notin {"str", "bytes"} THEN Raised
    ELSE IF Len(value.str) > max_cell_length
    THEN Returned([value EXCEPT !.str = Prefix(@, max_cell_length)])
    ELSE Returned(value)

\* The cut string ends in a marker that takes the place of its last
\* character.
_truncate_cell_marked(max_cell_length, value) ==
    IF value.kind = "str" /\ Len(value.str) > max_cell_length
    THEN Returned(Str(Append(Prefix(value.str, max_cell_length - 1), "~")))
    ELSE Returned(value)

\* SamplerInterface._truncate_cell(value), with self.max_cell_length: a string
\* longer than max_cell_length is cut to its first max_cell_length
\* characters; every other value is returned as it is.
_truncate_cell(max_cell_length, value) ==
    IF value.kind = "str" /\ Len(value.str) > max_cell_length
    THEN Returned(Str(Prefix(value.str, max_cell_length)))
    ELSE Returned(value)

\* The pass as a filter: a row with an oversized string is left out of the
\* sample instead of being cut.
TruncateRows_drop_oversized(max_cell_length, rows) ==
    LET fits(row) == \A c \in DOMAIN row :
                        row[c].kind = "str" => Len(row[c].str) <= max_cell_length
    IN  [raised |-> FALSE, rows |-> SelectSeq(rows, fits)]

\* The final projection pass: every cell of every row through _truncate_cell.
\* The rows keep their order, and so do the cells of a row.
TruncateRows(max_cell_length, rows) ==
    LET cut(r, c) == _truncate_cell(max_cell_length, rows[r][c])
    IN  IF \E r \in DOMAIN rows : \E c \in DOMAIN rows[r] : cut(r, c).raised
        THEN [raised |-> TRUE, rows |-> <<>>]
        ELSE [raised |-> FALSE,
              rows |-> [r \in DOMAIN rows |->
                          [c \in DOMAIN rows[r] |-> cut(r, c).value]]]

\* Where the rows of a sample come from: the table sample of a relational
\* sampler, its user-supplied sample query, or a dataframe batch.
Paths == {"table", "query", "dataframe"}

\* The rows of the user's sample query returned as the cursor gave them.
fetch_sample_data_raw_query(path, max_cell_length, rows) ==
    IF path = "query" THEN [raised |-> FALSE, rows |-> rows]
    ELSE TruncateRows(max_cell_length, rows)

\* fetch_sample_data(): the rows of the path's source (cursor rows of the
\* table sample, cursor rows of the sample query, or the rows of the
\* dataframe batch), then the projection pass, the same on every path.
fetch_sample_data(path, max_cell_length, rows) ==
    TruncateRows(max_cell_length, rows)

\* The characters of the strings, and the strings of at most n characters.
Alphabet == {"a", "b"}

Words(n) == UNION { [1 .. k -> Alphabet] : k \in 0 .. n }

\* The string of n characters "abab...".
Word(n) == [j \in 1 .. n |-> IF j % 2 = 1 THEN "a" ELSE "b"]

\* The cells _truncate_cell is tried on: every string up to one character
\* over the largest limit, an integer, a float, booleans, None, and byte
\* sequences within and over every limit.
Cells ==
    { Str(w) : w \in Words(MaxCellLength + 1) }
    \cup { Num(12345 * Resolution), Num(31400), Bool(TRUE), Bool(FALSE), None,
           Bytes(Word(1)), Bytes(Word(MaxCellLength + 1)) }

\* The rows of a sampled table (id, name, body): the id counts the rows, the
\* name is short or over every limit, the body is NULL or a string.
Names == { Str(Word(1)), Str(Word(MaxCellLength + 1)) }

Bodies == { Str(Word(n)) : n \in 0 .. MaxCellLength + 1 } \cup {None}

Tables ==
    UNION { { [r \in 1 .. n |-> <<Num(r * Resolution), names[r], bodies[r]>>] :
                names \in [1 .. n -> Names], bodies \in [1 .. n -> Bodies] } :
            n \in 0 .. MaxSampleRows }

NotCalled == [made |-> FALSE, raised |-> FALSE, value |-> None, rows |-> <<>>]

\* No sampler at work.
NoSampler ==
    [max_cell_length |-> 0, path |-> "table", value |-> None, rows |-> <<>>,
     truncated |-> NotCalled, sample_data |-> NotCalled]

\* ------------------------------------------------ the Glue pipeline source
\* What _resolve_glue_connection returns and caches: None, or the dict
\* {"database": db_name, "schema": None}.
NoConnInfo == [kind |-> "none", database |-> ""]
ConnInfo(db_name) == [kind |-> "dict", database |-> db_name]

\* A JDBC URL, as the runs of characters the pattern tells apart.
JdbcUrls ==
    { <<>>,
      <<"jdbc:", "redshift", "://", "host:5439", "/", "dev">>,
      <<"jdbc:", "postgresql", "://", "host", "/", "sales", "?", "ssl=true">>,
      <<"jdbc:", "mysql", "://", "host", "/", "dev", ";", "user=x">>,
      <<"jdbc:", "redshift", "://", "host:5439", "/">>,
      <<"jdbc:", "redshift", "://", "host:5439", "/", "?", "ssl=true">>,
      <<"redshift", "://", "host:5439", "/", "dev">> }

\* GluepipelineSource._parse_jdbc_url: None for an empty URL; else the match
\* of  jdbc:\w+://[^/]+/([^?;]+)  at the start of the URL gives the database.
_parse_jdbc_url(jdbc_url) ==
    IF jdbc_url = <<>> THEN NoConnInfo
    ELSE IF /\ Len(jdbc_url) >= 6
            /\ jdbc_url[1] = "jdbc:"
            /\ jdbc_url[2] \notin {"jdbc:", "://", "/", "?", ";"}
            /\ jdbc_url[3] = "://"
            /\ jdbc_url[4] \notin {"/"}
            /\ jdbc_url[5] = "/"
            /\ jdbc_url[6] \notin {"?", ";"}
    THEN ConnInfo(jdbc_url[6])
    ELSE NoConnInfo

\* What self.glue.get_connection(Name=..., HidePassword=True) does: it
\* raises, or returns a response without a "Connection" entry, or one whose
\* ConnectionProperties hold the JDBC URL (<<>>: no JDBC_CONNECTION_URL).
GlueResponses ==
    { [kind |-> "raise", url |-> <<>>], [kind |-> "empty", url |-> <<>>] }
    \cup { [kind |-> "connection", url |-> u] : u \in JdbcUrls }

\* response.get("Connection", {}).get("ConnectionProperties", {})
\*         .get("JDBC_CONNECTION_URL", "")
ResponseUrl(response) ==
    IF response.kind = "connection" THEN response.url ELSE <<>>

ConnectionNames == 1 .. MaxConnections

\* A GluepipelineSource after __init__: self._glue_connection_cache = {}.
\* api_calls counts the get_connection calls per name, resolves the
\* _resolve_glue_connection calls, last is the last of these calls.
NewGlue ==
    [cache |-> [n \in {} |-> NoConnInfo],
     api_calls |-> [n \in ConnectionNames |-> 0],
     resolves |-> [n \in ConnectionNames |-> 0],
     last |-> [name |-> 0, response |-> [kind |-> "empty", url |-> <<>>],
               result |-> NoConnInfo]]

\* cache[connection_name] = result
Cached(cache, connection_name, result) ==
    [n \in DOMAIN cache \cup {connection_name} |->
        IF n = connection_name THEN result ELSE cache[n]]

\* A failure is logged and None returned, the cache left as it was.
_resolve_glue_connection_uncached_failure(self, connection_name, response) ==
    LET called == [self EXCEPT !.resolves[connection_name] = @ + 1,
                               !.last.name = connection_name]
    IN  IF connection_name \in DOMAIN self.cache
        THEN [called EXCEPT !.last.result = self.cache[connection_name]]
        ELSE IF response.kind = "raise"
        THEN [called EXCEPT !.api_calls[connection_name] = @ + 1,
                            !.last.response = response,
                            !.last.result = NoConnInfo]
        ELSE LET result == _parse_jdbc_url(ResponseUrl(response))
             IN  [called EXCEPT !.api_calls[connection_name] = @ + 1,
                                !.last.response = response,
                                !.cache = Cached(@, connection_name, result),
                                !.last.result = result]

\* GluepipelineSource._resolve_glue_connection(connection_name), the Glue API
\* answering with response if it is asked.
_resolve_glue_connection(self, connection_name, response) ==
    LET called == [self EXCEPT !.resolves[connection_name] = @ + 1,
                               !.last.name = connection_name]
    IN  IF connection_name \in DOMAIN self.cache
        THEN [called EXCEPT !.last.result = self.cache[connection_name]]
        ELSE LET result == IF response.kind = "raise" THEN NoConnInfo
                           ELSE _parse_jdbc_url(ResponseUrl(response))
             IN  [called EXCEPT !.api_calls[connection_name] = @ + 1,
                                !.last.response = response,
                                !.cache = Cached(@, connection_name, result),
                                !.last.result = result]

\* --------------------------------------------------- the ThoughtSpot source
\* batch_size = 100 in get_dashboards_list
batch_size == 100

\* The isLastBatch field of a search response: true, false, null, or not in
\* the response (a response that is a plain list has no such field).
LastBatchFields == {"true", "false", "null", "absent"}

\* ThoughtSpotSearchResponse.is_last_batch = Field(True, alias="isLastBatch"),
\* as  if response.is_last_batch  reads it: the default for an absent field is
\* True, and None is not true.
is_last_batch(field) == field \in {"true", "absent"}

\* The headers of one batch: each is kept or is filtered out by its name.
Batches ==
    { <<>>, <<[filtered |-> FALSE]>>, <<[filtered |-> TRUE], [filtered |-> FALSE]>> }

\* What client.search_metadata(...) does: it raises (the request fails, or
\* the response does not validate), or returns the parsed response.
SearchResponses ==
    { [kind |-> "raise", headers |-> <<>>, field |-> "absent"] }
    \cup { [kind |-> "ok", headers |-> h, field |-> f] :
             h \in Batches, f \in LastBatchFields }

\* No get_dashboards_list call under way.
NoThoughtSpot ==
    [phase |-> "idle", includeAnswers |-> FALSE, offset |-> 0,
     requests |-> <<>>, dashboards |-> <<>>, raised |-> FALSE]

\* The objects of a batch that pass the filter, in the order of the batch,
\* each known by the request it came with and its place in the batch.
Collected(object_type, offset, headers) ==
    LET kept == SelectSeq([i \in DOMAIN headers |->
                             [index |-> i, filtered |-> headers[i].filtered]],
                          LAMBDA h : ~h.filtered)
    IN  [i \in DOMAIN kept |->
            [object_type |-> object_type, offset |-> offset,
             index |-> kept[i].index]]

ObjectTypeOf(phase) == IF phase = "liveboards" THEN "LIVEBOARD" ELSE "ANSWER"

\* After a loop ends with a last batch: the answers loop if the liveboards
\* are done and includeAnswers is set, else  return dashboards.
AfterLastBatch(self) ==
    IF self.phase = "liveboards" /\ self.includeAnswers
    THEN [self EXCEPT !.phase = "answers", !.offset = 0]
    ELSE [self EXCEPT !.phase = "returned"]

\* The loop goes on to the next offset whatever is_last_batch says.
SearchStep_ignores_last_batch(self, response) ==
    LET object_type == ObjectTypeOf(self.phase)
        asked == [self EXCEPT !.requests =
                     Append(@, [object_type |-> object_type,
                                offset |-> self.offset,
                                batch_size |-> batch_size,
                                response |-> response])]
    IN  IF response.kind = "raise" THEN [asked EXCEPT !.phase = "returned"]
        ELSE [asked EXCEPT !.dashboards =
                               @ \o Collected(object_type, self.offset,
                                              response.headers),
                           !.offset = @ + batch_size]

\* One turn of a  while True  loop of get_dashboards_list: the search request
\* at the current offset, the objects of its response collected, then break
\* or the next offset; an exception ends the method, which returns the
\* dashboards collected so far.
SearchStep(self, response) ==
    LET object_type == ObjectTypeOf(self.phase)
        asked == [self EXCEPT !.requests =
                     Append(@, [object_type |-> object_type,
                                offset |-> self.offset,
                                batch_size |-> batch_size,
                                response |-> response])]
    IN  IF response.kind = "raise" THEN [asked EXCEPT !.phase = "returned"]
        ELSE LET collected == [asked EXCEPT !.dashboards =
                                  @ \o Collected(object_type, self.offset,
                                                 response.headers)]
             IN  IF is_last_batch(response.field) THEN AfterLastBatch(collected)
                 ELSE [collected EXCEPT !.offset = @ + batch_size]

\* ------------------------------------------------------------------ state
VARIABLES
    class_attrs,     \* class -> its HYBRID_METRIC_OVERRIDES dict
    interfaces,      \* 1 .. MaxAdapters -> the instance, or Absent
    col_type,        \* the profiled column's type
    sample,          \* the sampled column: cell -> number of rows
    column_results,  \* ColumnResults of the profiled column
    call,            \* the last get_hybrid_metrics / fn call and what it did
    sampler,         \* a sampler, its input and what its calls returned
    glue,            \* a GluepipelineSource: its connection cache and its calls
    thoughtspot      \* a ThoughtSpotSource inside get_dashboards_list

vars == <<class_attrs, interfaces, col_type, sample, column_results, call, sampler, glue, thoughtspot>>

NoCall ==
    [made |-> FALSE, interface |-> 0, metric |-> "", session |-> NoSession,
     fn_calls |-> NoCalls, end |-> ReturnNone(<<>>, NoPlan)]

Constructed == { i \in 1 .. MaxAdapters : interfaces[i] # Absent }

\* The state after the class declarations, before any instance exists.
InitClasses ==
    /\ class_attrs = PinotDeclaration(SQADeclaration)
    /\ interfaces = [i \in 1 .. MaxAdapters |-> Absent]
    /\ call = NoCall

InitProfile(p) ==
    /\ col_type = p.col_type
    /\ sample = p.sample
    /\ column_results = p.column_results

\* No sampler is part of a profiling call.
InitNoSampler == sampler = NoSampler

\* Nor is a metadata source.
InitNoSources == glue = NewGlue /\ thoughtspot = NoThoughtSpot

Init ==
    /\ InitClasses /\ InitNoSampler /\ InitNoSources
    /\ \E p \in DispatchProfiles : InitProfile(p)

\* interface = cls(...): the next instance is constructed.
Construct(i, cls) ==
    /\ i = Cardinality(Constructed) + 1
    /\ i <= MaxAdapters
    /\ interfaces' = [interfaces EXCEPT ![i] = NewInterface(class_attrs, cls)]
    /\ UNCHANGED <<class_attrs, col_type, sample, column_results, call, sampler,
                 glue, thoughtspot>>

\* An instance built with an override map of its own.
ConstructWith(i, overrides) ==
    /\ i = Cardinality(Constructed) + 1
    /\ i <= MaxAdapters
    /\ interfaces' = [interfaces EXCEPT ![i] = MakeInterface(class_attrs, overrides)]
    /\ UNCHANGED <<class_attrs, col_type, sample, column_results, call, sampler,
                 glue, thoughtspot>>

\* interfaces[i].get_hybrid_metrics(column, metric, column_results)
GetHybridMetrics(i, metric, session) ==
    /\ i \in Constructed
    /\ LET d == get_hybrid_metrics(class_attrs, interfaces[i], col_type, metric,
                                   column_results, sample, session)
       IN  /\ class_attrs' = d.class_attrs
           /\ column_results' = d.column_results
           /\ call' = [made |-> TRUE, interface |-> i, metric |-> metric,
                       session |-> session, fn_calls |-> d.fn_calls,
                       end |-> d.end]
    /\ UNCHANGED <<interfaces, col_type, sample, sampler, glue, thoughtspot>>

Next ==
    \/ \E i \in 1 .. MaxAdapters, cls \in Classes : Construct(i, cls)
    \/ \E i \in 1 .. MaxAdapters,
          overrides \in {EmptyRegistry, "histogram" :> "PinotDBHistogram"} :
            ConstructWith(i, overrides)
    \/ \E i \in 1 .. MaxAdapters, metric \in Metrics, session \in Sessions :
            GetHybridMetrics(i, metric, session)

Spec == Init /\ [][Next]_vars

\* ------------------------------------------- the histogram called directly
InitHistogram ==
    /\ InitClasses /\ InitNoSampler /\ InitNoSources
    /\ \E type \in ColTypes : \E column \in ColumnsOf(type) :
         \E iqr \in IqrChoices(column), v \in Variants :
            InitProfile(Profile(type, column, iqr, v))

\* PinotDBHistogram(column).fn(sample, res, session)
CallPinotFn(session) ==
    /\ call' = [made |-> TRUE, interface |-> 0, metric |-> "PinotDBHistogram",
                session |-> session,
                fn_calls |-> [NoCalls EXCEPT !["PinotDBHistogram"] = 1],
                end |-> PinotDBHistogram_fn(col_type, sample, column_results,
                                            session)]
    /\ UNCHANGED <<class_attrs, interfaces, col_type, sample, column_results,
                 sampler, glue, thoughtspot>>

NextHistogram == \E session \in Sessions \cup {NoSession} : CallPinotFn(session)

SpecHistogram == InitHistogram /\ [][NextHistogram]_vars

\* ------------------------------------- the financial_transactions columns
\* A column of the integration table, TableRows rows without nulls: id is
\* 1 .. 5 (step 1), amount is 100 .. 500 (step 100).
TableColumn(step) ==
    [c \in { Num(i * step * Resolution) : i \in 1 .. TableRows } |-> 1]

\* Its static metrics: count, min and max of the rows, and the interquartile
\* range thirdQuartile - firstQuartile = 4 step - 2 step.
TableProfile(step) ==
    Profile([quantifiable |-> TRUE, concatenable |-> FALSE], TableColumn(step),
            2 * step * Resolution, "complete")

InitTable ==
    /\ InitClasses /\ InitNoSampler /\ InitNoSources
    /\ \E step \in 1 .. MaxStep : InitProfile(TableProfile(step))

SpecTable == InitTable /\ [][NextHistogram]_vars

\* ------------------------------------------------------ the sampler at work
\* The profiling state a sampler leaves alone.
InitNoProfile ==
    /\ InitClasses
    /\ InitProfile(Profile([quantifiable |-> TRUE, concatenable |-> FALSE],
                           DispatchColumn, Resolution, "complete"))

\* A sampler with its max_cell_length and a cell value.
InitTruncate ==
    /\ InitNoProfile /\ InitNoSources
    /\ \E max_cell_length \in 1 .. MaxCellLength, value \in Cells :
         sampler = [NoSampler EXCEPT !.max_cell_length = max_cell_length,
                                     !.value = value]

\* sampler._truncate_cell(value)
CallTruncateCell ==
    /\ sampler' =
         [sampler EXCEPT !.truncated =
            LET end == _truncate_cell(sampler.max_cell_length, sampler.value)
            IN  [made |-> TRUE, raised |-> end.raised, value |-> end.value,
                 rows |-> <<>>]]
    /\ UNCHANGED <<class_attrs, interfaces, col_type, sample, column_results, call,
                 glue, thoughtspot>>

SpecTruncate == InitTruncate /\ [][CallTruncateCell]_vars

\* A sampler with its max_cell_length, over a table, a sample query or a
\* dataframe batch with the given rows.
InitSampler ==
    /\ InitNoProfile /\ InitNoSources
    /\ \E max_cell_length \in 1 .. MaxCellLength, path \in Paths, rows \in Tables :
         sampler = [NoSampler EXCEPT !.max_cell_length = max_cell_length,
                                     !.path = path, !.rows = rows]

\* sampler.fetch_sample_data()
CallFetchSampleData ==
    /\ sampler' =
         [sampler EXCEPT !.sample_data =
            LET end == fetch_sample_data(sampler.path, sampler.max_cell_length,
                                       sampler.rows)
            IN  [made |-> TRUE, raised |-> end.raised, value |-> None,
                 rows |-> end.rows]]
    /\ UNCHANGED <<class_attrs, interfaces, col_type, sample, column_results, call,
                 glue, thoughtspot>>

SpecSampler == InitSampler /\ [][CallFetchSampleData]_vars

\* ------------------------------------------------ the Glue source at work
InitGlue ==
    /\ InitNoProfile /\ InitNoSampler
    /\ glue = NewGlue
    /\ thoughtspot = NoThoughtSpot

\* self._resolve_glue_connection(connection_name)
ResolveGlueConnection(connection_name, response) ==
    /\ glue.resolves[connection_name] < MaxResolves
    /\ glue' = _resolve_glue_connection(glue, connection_name, response)
    /\ UNCHANGED <<class_attrs, interfaces, col_type, sample, column_results, call,
                   sampler, thoughtspot>>

NextGlue ==
    \E connection_name \in ConnectionNames, response \in GlueResponses :
        ResolveGlueConnection(connection_name, response)

SpecGlue == InitGlue /\ [][NextGlue]_vars

\* ------------------------------------------ the ThoughtSpot source at work
\* get_dashboards_list() is entered: dashboards = [], offset = 0.
InitThoughtSpot ==
    /\ InitNoProfile /\ InitNoSampler
    /\ glue = NewGlue
    /\ \E includeAnswers \in BOOLEAN :
         thoughtspot = [NoThoughtSpot EXCEPT !.phase = "liveboards",
                                             !.includeAnswers = includeAnswers]

\* One request of get_dashboards_list and what follows from its response.
Search(response) ==
    /\ thoughtspot.phase \in {"liveboards", "answers"}
    /\ Len(thoughtspot.requests) < MaxRequests
    /\ thoughtspot' = SearchStep(thoughtspot, response)
    /\ UNCHANGED <<class_attrs, interfaces, col_type, sample, column_results, call,
                   sampler, glue>>

NextThoughtSpot == \E response \in SearchResponses : Search(response)

SpecThoughtSpot == InitThoughtSpot /\ [][NextThoughtSpot]_vars

\* ------------------------------------------------------------------ claims
\* The registry interface i sees, and the metric it resolves.
RegistryOf(i) == HYBRID_METRIC_OVERRIDES(class_attrs, interfaces[i])

Dispatch == call.made /\ call.interface \in Constructed

OverridesHistogram(registry) ==
    "histogram" \in DOMAIN registry /\ registry["histogram"] = "PinotDBHistogram"

DirectCall == call.made /\ call.interface = 0

TotalCalls == SumOver(call.fn_calls, Metrics)

\* C1: on an interface whose registry maps "histogram" to PinotDBHistogram, a
\* get_hybrid_metrics call for Histogram runs PinotDBHistogram.fn exactly once
\* and Histogram.fn never.
C1_OverrideDispatch ==
    (/\ Dispatch
     /\ call.metric = "Histogram"
     /\ OverridesHistogram(RegistryOf(call.interface)))
    => /\ call.fn_calls["PinotDBHistogram"] = 1
       /\ call.fn_calls["Histogram"] = 0

C1_Witness ==
    /\ Dispatch
    /\ interfaces[call.interface].cls = "PinotDBProfilerInterface"
    /\ call.metric = "Histogram"
    /\ call.fn_calls["PinotDBHistogram"] = 1
    /\ call.end.kind = "hist"

\* C2: when the requested metric's name is no key of the interface's registry,
\* get_hybrid_metrics runs the requested metric's own fn exactly once and no
\* other metric's fn.
C2_NoOverrideUsesRequested ==
    (Dispatch /\ MetricName(call.metric) \notin DOMAIN RegistryOf(call.interface))
    => call.fn_calls = [NoCalls EXCEPT ![call.metric] = 1]

C2_Witness ==
    /\ Dispatch
    /\ interfaces[call.interface].cls = "PinotDBProfilerInterface"
    /\ call.metric = "OtherHybridMetric"
    /\ call.fn_calls["OtherHybridMetric"] = 1

\* C3: whatever was constructed and dispatched, every interface sees exactly
\* the registry it was built with, and so resolves every metric by it alone.
C3_RegistryIsolation ==
    \A b \in Constructed :
        /\ RegistryOf(b) = interfaces[b].built
        /\ \A m \in Metrics :
             Resolve(RegistryOf(b), m) = Resolve(interfaces[b].built, m)

C3_Witness ==
    \E a, b \in Constructed :
        /\ interfaces[a].cls = "PinotDBProfilerInterface"
        /\ interfaces[b].cls = "SQAProfilerInterface"
        /\ interfaces[a].built # interfaces[b].built
        /\ call.made /\ call.interface = a
        /\ call.fn_calls["PinotDBHistogram"] = 1

\* C4: the base class's registry SQAProfilerInterface.HYBRID_METRIC_OVERRIDES
\* is empty in every reachable state.
C4_BaseRegistryEmpty == class_attrs["SQAProfilerInterface"] = EmptyRegistry

C4_Witness ==
    /\ Dispatch
    /\ interfaces[call.interface].cls = "PinotDBProfilerInterface"
    /\ OverridesHistogram(RegistryOf(call.interface))
    /\ call.fn_calls["PinotDBHistogram"] = 1

\* What the effective metric's fn does on the call's inputs.
EffectiveRun ==
    RunFn(Resolve(RegistryOf(call.interface), call.metric), col_type, sample,
          column_results, call.session)

\* C5: when the effective metric's fn raises, get_hybrid_metrics ends with
\* that same error (not None), and fn has run once.
C5_ErrorPropagates ==
    (Dispatch /\ EffectiveRun.kind = "raise")
    => /\ call.end.kind = "raise"
       /\ call.end.error = EffectiveRun.error
       /\ TotalCalls = 1

C5_Witness ==
    /\ Dispatch
    /\ interfaces[call.interface].cls = "PinotDBProfilerInterface"
    /\ call.fn_calls["PinotDBHistogram"] = 1
    /\ call.end.kind = "raise"
    /\ call.end.error = "QueryError"

\* C6: a PinotDBHistogram.fn call that gets past its precondition checks
\* hands the session exactly one query, a plain SELECT from the sample with
\* exactly num_bins aggregate expressions.
C6_SingleQuery ==
    (DirectCall /\ call.end.plan.set)
    => /\ Len(call.end.queries) = 1
       /\ Len(call.end.queries[1].columns) = call.end.plan.num_bins
       /\ call.end.queries[1].select_from = "sample"

C6_Witness ==
    /\ DirectCall
    /\ call.end.plan.set
    /\ call.end.plan.num_bins >= 2
    /\ Len(call.end.queries) = 1

\* The results map is complete and numeric, of a column with rows.
CompleteResults ==
    /\ DOMAIN column_results = {"count", "min", "max", "interQuartileRange"}
    /\ \A k \in DOMAIN column_results : column_results[k].kind = "num"

NumericColumn == col_type.quantifiable /\ ~col_type.concatenable

\* C7: for a numeric column with rowCount > 0 and iqr > 0, num_bins > 0, and
\* the histogram fn returns has num_bins boundaries and num_bins frequencies.
C7_BinCount ==
    (/\ DirectCall /\ call.session.present
     /\ NumericColumn /\ CompleteResults
     /\ column_results["count"].val > 0
     /\ column_results["interQuartileRange"].val > 0)
    => /\ call.end.plan.set
       /\ call.end.plan.num_bins > 0
       /\ call.session.outcome = "row" =>
            /\ call.end.kind = "hist"
            /\ Len(call.end.boundaries) = call.end.plan.num_bins
            /\ Len(call.end.frequencies) = call.end.plan.num_bins

C7_Witness ==
    /\ DirectCall /\ NumericColumn /\ CompleteResults
    /\ column_results["interQuartileRange"].val > 0
    /\ call.end.kind = "hist"
    /\ Len(call.end.boundaries) >= 2

\* C8: with min the column's true minimum and count its non-null row count,
\* the frequencies sum to at most the row count, and to exactly the row count
\* when the column has no nulls.
C8_FrequenciesCoverRows ==
    (DirectCall /\ CompleteResults /\ call.end.kind = "hist")
    => /\ SumSeq(call.end.frequencies) <= NonNullCount(sample)
       /\ NonNull(sample) = DOMAIN sample =>
            SumSeq(call.end.frequencies) = RowCount(sample)

\* C9: in a histogram of PinotDBHistogram.fn the bin starts behind the labels
\* never decrease, the last label is "X and up" and no other label is.
C9_LabelsOrdered ==
    (DirectCall /\ call.end.kind = "hist")
    => LET b == call.end.boundaries
       IN  /\ \A i, j \in DOMAIN b : i < j => b[i].start <= b[j].start
           /\ \A i \in DOMAIN b : b[i].up <=> i = Len(b)

C9_Witness ==
    /\ DirectCall
    /\ call.end.kind = "hist"
    /\ Len(call.end.boundaries) >= 3
    /\ call.end.boundaries[1].start < call.end.boundaries[2].start

\* C10: the bin plan PinotDBHistogram works with (num_bins, bin_width, first
\* bin from min to min + bin_width) is the generic Histogram's for the same
\* results, and so are the labels of the bins.
C10_SamePlanAsGeneric ==
    (DirectCall /\ call.end.plan.set)
    => LET generic == Histogram_fn(col_type, sample, column_results, call.session)
       IN  /\ call.end.plan = generic.plan
           /\ call.end.plan.starting_bin_bound = column_results["min"].val
           /\ call.end.plan.ending_bin_bound =
                column_results["min"].val + call.end.plan.bin_width
           /\ call.end.boundaries = generic.boundaries

C10_Witness ==
    /\ DirectCall
    /\ call.end.kind = "hist"
    /\ call.end.plan.starting_bin_bound > 0
    /\ call.end.plan.bin_width % Resolution # 0
    /\ Len(call.end.boundaries) >= 2

\* C11: for a quantifiable column with numeric min and max, complete results
\* and num_bins > 0, PinotDBHistogram.fn calls get_sqlalchemy_histogram
\* exactly once, with starting bound min and ending bound min + bin_width.
C11_CallsQueryBuilderOnce ==
    (/\ DirectCall /\ call.session.present
     /\ col_type.quantifiable /\ CompleteResults
     /\ call.end.plan.set /\ call.end.plan.num_bins > 0)
    => /\ Len(call.end.helper_calls) = 1
       /\ call.end.helper_calls[1].starting_bin_bound = column_results["min"].val
       /\ call.end.helper_calls[1].ending_bin_bound =
            column_results["min"].val + call.end.plan.bin_width

\* The column type or the min/max of the results rule a histogram out.
Unsupported ==
    \/ ~col_type.quantifiable /\ ~col_type.concatenable
    \/ is_value_non_numeric(DictGet(column_results, "min"))
    \/ is_value_non_numeric(DictGet(column_results, "max"))

\* C12 as stated: whenever the column is neither numeric nor textual, or min
\* or max is non-numeric, fn returns None, raises nothing and issues no query.
C12_UnsupportedIsNone_AnyCall ==
    (DirectCall /\ Unsupported)
    => call.end.kind = "none" /\ call.end.queries = <<>>

\* C12: called with a session, fn returns None, raises nothing and issues no
\* query whenever the column is neither numeric nor textual, or min or max is
\* non-numeric.
C12_UnsupportedIsNone ==
    (DirectCall /\ call.session.present /\ Unsupported)
    => call.end.kind = "none" /\ call.end.queries = <<>>

\* Both cases at once would hide one: a column of no supported type with
\* numeric min and max, whose session would have answered.
C12_Witness ==
    /\ DirectCall /\ call.session.present /\ call.session.outcome = "row"
    /\ ~col_type.quantifiable /\ ~col_type.concatenable
    /\ CompleteResults
    /\ column_results["max"].val > column_results["min"].val
    /\ call.end.kind = "none"

\* C13: for a textual column (concatenable, not numeric) with numeric min and
\* max, fn gets past the precondition check and builds its histogram over
\* length(column).
C13_TextualColumnProfiled ==
    (/\ DirectCall /\ call.session.present
     /\ col_type.concatenable /\ ~col_type.quantifiable
     /\ CompleteResults
     /\ column_results["max"].val > column_results["min"].val)
    => /\ call.end.plan.set
       /\ Len(call.end.queries) = 1
       /\ \A i \in DOMAIN call.end.queries[1].columns :
            call.end.queries[1].columns[i].col.fn = "len"

\* min and max are in the results map and numeric; count or
\* interQuartileRange is not in it.
LacksPlanningValue ==
    /\ {"min", "max"} \subseteq DOMAIN column_results
    /\ column_results["min"].kind = "num"
    /\ column_results["max"].kind = "num"
    /\ ~({"count", "interQuartileRange"} \subseteq DOMAIN column_results)

\* C14 as stated: when the results map lacks count or interQuartileRange
\* while min and max are present, fn returns None and issues no query.
C14_MissingResultIsNone_AnyCall ==
    (DirectCall /\ LacksPlanningValue)
    => call.end.kind = "none" /\ call.end.queries = <<>>

\* C14: called with a session, fn returns None and issues no query when the
\* results map lacks count or interQuartileRange while min and max are
\* present.
C14_MissingResultIsNone ==
    (DirectCall /\ call.session.present /\ LacksPlanningValue)
    => call.end.kind = "none" /\ call.end.queries = <<>>

C14_Witness ==
    /\ DirectCall /\ call.session.present /\ call.session.outcome = "row"
    /\ NumericColumn /\ LacksPlanningValue
    /\ "count" \in DOMAIN column_results
    /\ column_results["max"].val > column_results["min"].val
    /\ call.end.kind = "none"

\* C15: when the one aggregate query returns no row, fn returns None, not an
\* empty histogram and not an exception.
C15_NoRowIsNone ==
    (/\ DirectCall /\ Len(call.end.queries) = 1
     /\ call.session.outcome = "norow")
    => /\ call.end.kind = "none"
       /\ call.end.boundaries = <<>>
       /\ call.end.frequencies = <<>>

C15_Witness ==
    /\ DirectCall
    /\ call.session.outcome = "norow"
    /\ Len(call.end.queries) = 1
    /\ call.end.plan.num_bins >= 2
    /\ call.end.kind = "none"

\* C16: when the query returns a row, boundaries are the labels of the
\* query's aggregate expressions in bin order and frequencies are the row's
\* values in the same order: frequencies[i] counts the bin boundaries[i].
C16_RowParsedInOrder ==
    (/\ DirectCall /\ Len(call.end.queries) = 1
     /\ call.session.outcome = "row")
    => LET stmts == call.end.queries[1].columns
       IN  /\ call.end.kind = "hist"
           /\ DOMAIN call.end.boundaries = DOMAIN stmts
           /\ DOMAIN call.end.frequencies = DOMAIN stmts
           /\ \A i \in DOMAIN stmts :
                /\ call.end.boundaries[i] = stmts[i].label
                /\ call.end.frequencies[i] = Aggregate(stmts[i], sample)

\* Bins with different counts, so that an order can be wrong.
C16_Witness ==
    /\ DirectCall
    /\ call.end.kind = "hist"
    /\ Len(call.end.frequencies) >= 2
    /\ call.end.frequencies[1] # call.end.frequencies[Len(call.end.frequencies)]
    /\ call.end.boundaries[1] = call.end.queries[1].columns[1].label

\* C17: for the column 1 .. 5 (min 1, max 5, iqr 2, count 5) the histogram
\* is "1.000 to 3.339", "3.339 and up" with frequencies 3, 2; for the column
\* 100 .. 500 it is "100.000 to 333.921", "333.921 and up" with 3, 2.
C17_TableHistograms ==
    (DirectCall /\ call.session.present /\ call.session.outcome = "row")
    => /\ sample = TableColumn(1) =>
            /\ call.end.kind = "hist"
            /\ call.end.boundaries =
                 << [start |-> 1000, end |-> 3339, up |-> FALSE],
                    [start |-> 3339, end |-> 3339, up |-> TRUE] >>
            /\ call.end.frequencies = <<3, 2>>
       /\ sample = TableColumn(100) =>
            /\ call.end.kind = "hist"
            /\ call.end.boundaries =
                 << [start |-> 100000, end |-> 333921, up |-> FALSE],
                    [start |-> 333921, end |-> 333921, up |-> TRUE] >>
            /\ call.end.frequencies = <<3, 2>>

C17_Witness ==
    /\ DirectCall
    /\ sample = TableColumn(100)
    /\ column_results["interQuartileRange"] = Num(200 * Resolution)
    /\ call.end.kind = "hist"
    /\ Len(call.end.frequencies) = 2

\* C18: for a string s and the limit L = max_cell_length, _truncate_cell
\* returns s unchanged when len(s) <= L (len(s) = L included) and exactly the
\* prefix s[0:L], of length L, when len(s) > L.
C18_StringCutToPrefix ==
    (sampler.truncated.made /\ sampler.value.kind = "str")
    => LET s == sampler.value.str
           L == sampler.max_cell_length
           out == sampler.truncated
       IN  /\ ~out.raised
           /\ out.value.kind = "str"
           /\ Len(s) <= L => out.value.str = s
           /\ Len(s) > L =>
                /\ Len(out.value.str) = L
                /\ \A i \in 1 .. L : out.value.str[i] = s[i]

\* A cut that is not a suffix: the string is longer than the limit, and its
\* first L characters are not its last L.
C18_Witness ==
    /\ sampler.truncated.made
    /\ sampler.value.kind = "str"
    /\ Len(sampler.value.str) = sampler.max_cell_length + 1
    /\ sampler.max_cell_length >= 2
    /\ sampler.value.str[1] # sampler.value.str[2]
    /\ Len(sampler.truncated.value.str) = sampler.max_cell_length

\* C19: for a cell that is not a string (integer, float, boolean, None, byte
\* sequence), of any size, _truncate_cell returns the value itself and does
\* not raise.
C19_NonStringUnchanged ==
    (sampler.truncated.made /\ sampler.value.kind # "str")
    => /\ ~sampler.truncated.raised
       /\ sampler.truncated.value = sampler.value

\* A byte sequence longer than the limit comes back whole.
C19_Witness ==
    /\ sampler.truncated.made
    /\ sampler.value.kind = "bytes"
    /\ Len(sampler.value.str) > sampler.max_cell_length
    /\ sampler.truncated.value = sampler.value

\* C20: in the sample data fetch_sample_data returns, every string cell of
\* every row is at most max_cell_length long, whether the rows come from the
\* table sample, a user-supplied sample query or a dataframe batch.
C20_SampleCellsBounded ==
    sampler.sample_data.made
    => /\ ~sampler.sample_data.raised
       /\ \A r \in DOMAIN sampler.sample_data.rows :
            \A c \in DOMAIN sampler.sample_data.rows[r] :
                sampler.sample_data.rows[r][c].kind = "str"
                => Len(sampler.sample_data.rows[r][c].str) <= sampler.max_cell_length

\* The rows of a user query with an oversized body, cut in the sample data.
C20_Witness ==
    /\ sampler.sample_data.made
    /\ sampler.path = "query"
    /\ Len(sampler.rows) = 2
    /\ sampler.rows[2][3].kind = "str"
    /\ Len(sampler.rows[2][3].str) > sampler.max_cell_length
    /\ Len(sampler.sample_data.rows) = 2
    /\ Len(sampler.sample_data.rows[2][3].str) = sampler.max_cell_length

\* A cell the pass has nothing to cut: None, not a string, or a string within
\* the limit.
WithinLimit(cell) ==
    cell.kind = "str" => Len(cell.str) <= sampler.max_cell_length

\* C21: the truncation pass keeps the number of rows, the number of cells of
\* each row and their order, and a cell that is None, not a string or a
\* string within the limit comes out unchanged, whatever happens to the other
\* cells of its row and to the other rows.
C21_CellsIndependent ==
    sampler.sample_data.made
    => LET before == sampler.rows
           after == sampler.sample_data.rows
       IN  /\ Len(after) = Len(before)
           /\ \A r \in DOMAIN before :
                /\ Len(after[r]) = Len(before[r])
                /\ \A c \in DOMAIN before[r] :
                     WithinLimit(before[r][c]) => after[r][c] = before[r][c]

\* A row whose name is cut while its id and its NULL body are not, next to a
\* row in which nothing is cut.
C21_Witness ==
    /\ sampler.sample_data.made
    /\ Len(sampler.rows) = 2
    /\ ~WithinLimit(sampler.rows[1][2])
    /\ sampler.rows[1][3] = None
    /\ WithinLimit(sampler.rows[2][2]) /\ WithinLimit(sampler.rows[2][3])
    /\ sampler.rows[2][3].kind = "str"
    /\ sampler.sample_data.rows[1][2] # sampler.rows[1][2]
    /\ sampler.sample_data.rows[1][3] = None
    /\ sampler.sample_data.rows[2] = sampler.rows[2]

\* The aggregate expressions of the one query of a direct fn call.
Stmts == call.end.queries[1].columns

Queried == DirectCall /\ Len(call.end.queries) = 1

\* The start of bin i of the plan, in 1/Resolution.
BinStart(i) ==
    call.end.plan.starting_bin_bound + (i - 1) * call.end.plan.bin_width

\* round(b * SCALE_FACTOR) for a boundary b in 1/Resolution.
RoundedScaled(b) == RoundHalfEven(b, Resolution \div SCALE_FACTOR)

\* value * SCALE_FACTOR against an integer, for a value in 1/Resolution.
ScaledValueGE(v, n) == v * SCALE_FACTOR >= n * Resolution

\* C22: in the query of PinotDBHistogram.fn every bin but the last counts the
\* rows with start <= value < end and the last bin the rows with
\* value >= start, each comparison being made between value * SCALE_FACTOR
\* and the rounded scaled boundary.
C22_BinConditions ==
    Queried
    => \A i \in DOMAIN Stmts : \A cell \in DOMAIN sample :
         LET v == ColValue(Stmts[i].col, cell)
             lo == RoundedScaled(BinStart(i))
             hi == RoundedScaled(BinStart(i + 1))
         IN  /\ Stmts[i].open <=> i = Len(Stmts)
             /\ CaseWhen(Stmts[i], cell) <=>
                  /\ v.kind = "num"
                  /\ ScaledValueGE(v.val, lo)
                  /\ i < Len(Stmts) => ~ScaledValueGE(v.val, hi)

\* A row whose value is the end of the first bin and the start of the second.
C22_Witness ==
    /\ Queried
    /\ Len(Stmts) >= 2
    /\ \E cell \in DOMAIN sample :
         /\ cell.kind = "num"
         /\ cell.val = BinStart(2)
         /\ ~CaseWhen(Stmts[1], cell)
         /\ CaseWhen(Stmts[2], cell)

\* C23: PinotDBHistogram multiplies the column by SCALE_FACTOR and replaces
\* every bin boundary b by the integer round(b * SCALE_FACTOR), so no
\* comparison of the query has a non-integer literal; the bounds 12.0 and
\* 19.0 become 12000 and 19000.
C23_IntegerLiterals ==
    /\ ScaledRound(12 * Resolution) = 12000
    /\ ScaledRound(19 * Resolution) = 19000
    /\ Queried
       => \A i \in DOMAIN Stmts :
            /\ Stmts[i].col.times = SCALE_FACTOR
            /\ Stmts[i].lo = [num |-> RoundedScaled(BinStart(i)), den |-> 1]
            /\ i < Len(Stmts) =>
                 Stmts[i].hi = [num |-> RoundedScaled(BinStart(i + 1)), den |-> 1]
            /\ Stmts[i].hi.den = 1

\* A boundary that is not a whole number of 1/SCALE_FACTOR, rounded.
C23_Witness ==
    /\ Queried
    /\ Len(Stmts) >= 2
    /\ BinStart(2) % (Resolution \div SCALE_FACTOR) # 0
    /\ Stmts[1].hi.den = 1
    /\ Stmts[2].lo.num = RoundedScaled(BinStart(2))

\* C24: each bin's frequency is a SUM of 1 for each row satisfying the bin's
\* condition and 0 for every other row: a row outside the bin and a row whose
\* value is NULL add nothing; no bin is a COUNT over a CASE.
C24_SumOfOnes ==
    Queried
    => /\ \A i \in DOMAIN Stmts :
            /\ Stmts[i].agg = "sum"
            /\ Stmts[i].then_ = 1
            /\ Stmts[i].else_ = 0
       /\ call.end.kind = "hist" =>
            \A i \in DOMAIN Stmts :
              LET inside == { cell \in NonNull(sample) : CaseWhen(Stmts[i], cell) }
              IN  call.end.frequencies[i] = SumOver(sample, inside)

\* A histogram over a column with a NULL row and with rows outside the first
\* bin.
C24_Witness ==
    /\ Queried
    /\ call.end.kind = "hist"
    /\ Len(Stmts) >= 2
    /\ None \in DOMAIN sample
    /\ call.end.frequencies[1] > 0
    /\ call.end.frequencies[1] < NonNullCount(sample)

\* fn gets as far as deriving the bins: a session, a quantifiable column,
\* numeric min and max, and the four values of the plan in the results map.
BinsDerived ==
    /\ DirectCall /\ call.session.present
    /\ col_type.quantifiable
    /\ CompleteResults

DerivedBins ==
    _get_bins(column_results["interQuartileRange"].val, column_results["count"].val,
              column_results["min"].val, column_results["max"].val)

C26_BinsPartition ==
    Queried
    => /\ \A i \in 1 .. Len(Stmts) - 1 : Stmts[i].hi = Stmts[i + 1].lo
       /\ \A cell \in NonNull(sample) :
            ScaledValueGE(ColValue(Stmts[1].col, cell).val, Stmts[1].lo.num)
            => Cardinality({ i \in DOMAIN Stmts : CaseWhen(Stmts[i], cell) }) = 1

\* Three bins whose inner boundaries are rounded, with rows in the last.
C26_Witness ==
    /\ Queried
    /\ call.end.kind = "hist"
    /\ Len(Stmts) >= 3
    /\ BinStart(2) % (Resolution \div SCALE_FACTOR) # 0
    /\ Stmts[2].hi = Stmts[3].lo
    /\ call.end.frequencies[3] > 0

\* C27: fn called without a session raises AttributeError before any
\* precondition check, for every column type and every results map; None for
\* unsupported input is returned only when a session is supplied.
C27_NoSessionRaises ==
    DirectCall
    => /\ ~call.session.present =>
            /\ call.end.kind = "raise"
            /\ call.end.error = "AttributeError"
            /\ call.end.queries = <<>>
       /\ call.end.kind = "none" => call.session.present

\* No session and a column no histogram is made of.
C27_Witness ==
    /\ DirectCall
    /\ ~call.session.present
    /\ Unsupported
    /\ call.end.error = "AttributeError"

\* C28: a get_hybrid_metrics call, and the fn call it makes, leave their
\* inputs as they were, whether a result, None or an error comes back: the
\* column results map holds the entries it held before, and every interface's
\* override registry holds the entries it held at construction.
C28_InputsUnchanged ==
    [][call' # call
       => /\ column_results' = column_results
          /\ class_attrs' = class_attrs
          /\ \A i \in Constructed :
               /\ interfaces'[i] = interfaces[i]
               /\ RegistryOf(i)' = interfaces[i].built]_vars

\* A dispatch on a Pinot interface that ended in a histogram, the results
\* map complete as before and the registry as built.
C28_Witness ==
    /\ Dispatch
    /\ interfaces[call.interface].cls = "PinotDBProfilerInterface"
    /\ call.fn_calls["PinotDBHistogram"] = 1
    /\ call.end.kind = "hist"
    /\ CompleteResults
    /\ RegistryOf(call.interface) = interfaces[call.interface].built

\* A _resolve_glue_connection call for name n is the step.
Resolved(n) == glue'.resolves[n] > glue.resolves[n]

\* C29: over any sequence of _resolve_glue_connection calls on one source the
\* Glue get_connection API is called at most once per connection name: the
\* first outcome is cached, a failure as None, and every later call for the
\* name returns the cached value without a new API call.
C29_OneApiCallPerName ==
    [][\A n \in ConnectionNames :
         /\ glue'.api_calls[n] <= 1
         /\ (Resolved(n) /\ n \notin DOMAIN glue.cache)
            => /\ glue'.api_calls[n] = glue.api_calls[n] + 1
               /\ n \in DOMAIN glue'.cache
               /\ glue'.cache[n] = glue'.last.result
               /\ glue'.last.response.kind = "raise"
                  => glue'.cache[n] = NoConnInfo
         /\ (Resolved(n) /\ n \in DOMAIN glue.cache)
            => /\ glue'.api_calls = glue.api_calls
               /\ glue'.cache = glue.cache
               /\ glue'.last.result = glue.cache[n]]_vars

\* A name whose first call failed, resolved again from the cache, next to a
\* name that resolved to a database.
C29_Witness ==
    \E n, m \in ConnectionNames :
        /\ glue.resolves[n] >= 2
        /\ glue.api_calls[n] = 1
        /\ glue.last.name = n
        /\ glue.last.response.kind = "raise"
        /\ glue.cache[n] = NoConnInfo
        /\ m \in DOMAIN glue.cache
        /\ glue.cache[m].kind = "dict"

\* The requests of get_dashboards_list for one object type, in order.
RequestsFor(object_type) ==
    SelectSeq(thoughtspot.requests, LAMBDA r : r.object_type = object_type)

\* What the first k requests collected.
RECURSIVE CollectedBy(_)
CollectedBy(k) ==
    IF k = 0 THEN <<>>
    ELSE LET r == thoughtspot.requests[k]
         IN  CollectedBy(k - 1)
             \o (IF r.response.kind = "raise" THEN <<>>
                 ELSE Collected(r.object_type, r.offset, r.response.headers))

\* C30: get_dashboards_list requests the liveboard batches at the offsets 0,
\* 100, 200, ... in this order, requests nothing more for an object type
\* after the first response whose is_last_batch is true (a response without
\* the field counts as last), and when a request fails it returns the
\* dashboards of the earlier batches instead of raising.
C30_Pagination ==
    /\ \A object_type \in {"LIVEBOARD", "ANSWER"} :
         LET reqs == RequestsFor(object_type)
         IN  \A i \in DOMAIN reqs :
               /\ reqs[i].offset = (i - 1) * 100
               /\ i < Len(reqs) =>
                    /\ reqs[i].response.kind = "ok"
                    /\ reqs[i].response.field \notin {"true", "absent"}
    /\ ~thoughtspot.raised
    /\ thoughtspot.dashboards = CollectedBy(Len(thoughtspot.requests))
    /\ \A k \in DOMAIN thoughtspot.requests :
         thoughtspot.requests[k].response.kind = "raise"
         => /\ k = Len(thoughtspot.requests)
            /\ thoughtspot.phase = "returned"
            /\ thoughtspot.dashboards = CollectedBy(k - 1)

\* Liveboards asked for at 0, 100 and 200; the third request failed and the
\* liveboards of the first two batches are returned.
C30_Witness ==
    /\ thoughtspot.phase = "returned"
    /\ Len(RequestsFor("LIVEBOARD")) = 3
    /\ thoughtspot.requests[3].offset = 200
    /\ thoughtspot.requests[3].response.kind = "raise"
    /\ Len(thoughtspot.dashboards) = 2
    /\ thoughtspot.dashboards[2].offset = 100

====
